---- MODULE Spec2Model ----
(***************************************************************************)
(* A model of sga's overlap stage (src/src/SGA/overlap.cpp): the           *)
(* conversion of hit lines to Overlap records (hitStringToOverlaps), the   *)
(* legacy router (writeOverlap) and the orchestrator (overlapMain,         *)
(* convertHitsToASQG, convertHitsToOverlaps).                              *)
(*                                                                         *)
(* SeqCoord, Overlap, OverlapBlock's extraction operator, ReadTable,       *)
(* SuffixArray and OverlapCommon::computeHits* belong to the repository    *)
(* but not to overlap.cpp; they are modelled from the specification's      *)
(* description of them.                                                    *)
(***************************************************************************)
EXTENDS Integers, Sequences, FiniteSets

\* ---------------------------------------------------------------- bounds
NumReads == 3
MaxLen == 2
MaxBlocks == 2
MaxDiff == 1
MaxCoordLen == 3
MaxThreads == 2
MaxLines == 2

\* ------------------------------------------------------------- utilities
Min(a, b) == IF a < b THEN a ELSE b

RECURSIVE Reverse(_)
Reverse(s) == IF s = <<>> THEN <<>> ELSE Reverse(Tail(s)) \o <<Head(s)>>

\* std::string operator< : lexicographic comparison of read names
RECURSIVE LexLess(_, _)
LexLess(a, b) ==
    IF b = <<>> THEN FALSE
    ELSE IF a = <<>> THEN TRUE
    ELSE IF Head(a) < Head(b) THEN TRUE
    ELSE IF Head(a) > Head(b) THEN FALSE
    ELSE LexLess(Tail(a), Tail(b))

Perms(n) ==
    {f \in [0..(n - 1) -> 0..(n - 1)] :
        \A i, j \in 0..(n - 1) : f[i] = f[j] => i = j}

\* ------------------------------------------------------------- SeqCoord
SeqCoord(s, e, l) == [start |-> s, end |-> e, seqlen |-> l]

isLeftExtreme(c) == c.start = 0

isRightExtreme(c) == c.end + 1 = c.seqlen

isExtreme(c) == isLeftExtreme(c) \/ isRightExtreme(c)

isContained(c) == isLeftExtreme(c) /\ isRightExtreme(c)

\* a flip that is off by one at the right end
flip_offByOne(c) ==
    [start |-> c.seqlen - c.end, end |-> c.seqlen - 1 - c.start,
     seqlen |-> c.seqlen]

flip(c) ==
    [start |-> c.seqlen - 1 - c.end, end |-> c.seqlen - 1 - c.start,
     seqlen |-> c.seqlen]

\* --------------------------------------------------------------- Overlap
Overlap(idA, scA, idB, scB, isRC, numDiff) ==
    [id |-> <<idA, idB>>, coord |-> <<scA, scB>>, isRC |-> isRC,
     numDiff |-> numDiff]

isContainment(o) == isContained(o.coord[1]) \/ isContained(o.coord[2])

\* ------------------------------------------------------------ read table
\* Read names as character strings; their lexicographic order is not the
\* order of the numbers they spell ("10" < "9").
NamePool == << <<9>>, <<1, 0>>, <<1, 1>>, <<1, 2>> >>

ReadIdxs == 0..(NumReads - 1)

SeqItem(name, len) == [id |-> name, seq |-> [k \in 1..len |-> "N"]]

\* ReadTable(readsFile): one SeqItem per read, names distinct, any lengths
ReadTables ==
    {[i \in ReadIdxs |-> SeqItem(NamePool[i + 1], lens[i])] :
        lens \in [ReadIdxs -> 1..MaxLen]}

\* ReadTable::initializeReverse: same ids, sequences reversed
initializeReverse(pRT) ==
    [i \in DOMAIN pRT |-> [id |-> pRT[i].id, seq |-> Reverse(pRT[i].seq)]]

\* SuffixArray index: one entry per read, position -> read index
SuffixArrays == Perms(NumReads)

\* The index of the reversed reads orders them independently; the model
\* takes it equal to the forward index or to the forward index backwards
Backwards(f) == [k \in DOMAIN f |-> f[NumReads - 1 - k]]

\* ------------------------------------------------------------- hit lines
\* A hit line is the sequence of its whitespace-separated tokens:
\*   readIdx numBlocks { lower upper overlapLen numDiff flags }*
\* A numeric token is its value; Bad stands for a token that is no number.
Bad == 0 - 1

isQueryRev(flags) == flags % 2 = 1

isTargetRev(flags) == (flags \div 2) % 2 = 1

OverlapBlock(lo, up, len, nd, fl) ==
    [lower |-> lo, upper |-> up, overlapLen |-> len, numDiff |-> nd,
     flags |-> fl]

\* operator<< of the hit writer: the tokens of one block, of one line
BlockTokens(b) == <<b.lower, b.upper, b.overlapLen, b.numDiff, b.flags>>

RECURSIVE BlocksTokens(_)
BlocksTokens(bs) ==
    IF bs = <<>> THEN <<>> ELSE BlockTokens(Head(bs)) \o BlocksTokens(Tail(bs))

HitLine(readIdx, bs) == <<readIdx, Len(bs)>> \o BlocksTokens(bs)

\* istream extraction: the n-th token is read successfully iff the stream
\* has not failed before, i.e. tokens 1..n all exist and are numbers
Extracted(h, n) == Len(h) >= n /\ \A k \in 1..n : h[k] # Bad

\* convertor >> record, for the i-th block (i from 1)
BlockEnd(i) == 2 + 5 * i

ExtractBlock(h, i) ==
    LET b == BlockEnd(i - 1)
    IN OverlapBlock(h[b + 1], h[b + 2], h[b + 3], h[b + 4], h[b + 5])

\* A line every extraction of which succeeds
WellFormed(h) == Extracted(h, 2) /\ Len(h) = BlockEnd(h[2])

\* ------------------------------------------------- hitStringToOverlaps
\* BuildOverlap flipping the target coordinate on the query's flag
BuildOverlap_flipOnQuery(query, target, record) ==
    LET s1 == Len(query.seq) - record.overlapLen
        e1 == s1 + record.overlapLen - 1
        sc1 == SeqCoord(s1, e1, Len(query.seq))
        e2 == record.overlapLen - 1
        sc2 == SeqCoord(0, e2, Len(target.seq))
        fsc1 == IF isQueryRev(record.flags) THEN flip(sc1) ELSE sc1
        fsc2 == IF isQueryRev(record.flags) THEN flip(sc2) ELSE sc2
        isRC == isTargetRev(record.flags) # isQueryRev(record.flags)
    IN Overlap(query.id, fsc1, target.id, fsc2, isRC, record.numDiff)

\* BuildOverlap that never flips
BuildOverlap_noFlip(query, target, record) ==
    LET s1 == Len(query.seq) - record.overlapLen
        e1 == s1 + record.overlapLen - 1
        e2 == record.overlapLen - 1
        isRC == isTargetRev(record.flags) # isQueryRev(record.flags)
    IN Overlap(query.id, SeqCoord(s1, e1, Len(query.seq)),
               target.id, SeqCoord(0, e2, Len(target.seq)), isRC, record.numDiff)

\* lines 288-306: the Overlap of a query/target pair of one block
BuildOverlap(query, target, record) ==
    LET s1 == Len(query.seq) - record.overlapLen
        e1 == s1 + record.overlapLen - 1
        sc1 == SeqCoord(s1, e1, Len(query.seq))
        s2 == 0
        e2 == s2 + record.overlapLen - 1
        sc2 == SeqCoord(s2, e2, Len(target.seq))
        fsc1 == IF isQueryRev(record.flags) THEN flip(sc1) ELSE sc1
        fsc2 == IF isTargetRev(record.flags) THEN flip(sc2) ELSE sc2
        isRC == isTargetRev(record.flags) # isQueryRev(record.flags)
    IN Overlap(query.id, fsc1, target.id, fsc2, isRC, record.numDiff)

\* a self-alignment test that lets every pair through
NotSelf_always(query, target) == TRUE

\* a duplicate filter without the id comparison
IsDuplicate_containOnly(o, record) ==
    isContainment(o) /\ isQueryRev(record.flags)

\* a duplicate filter without the containment rule
IsDuplicate_idOnly(o, record) == LexLess(o.id[1], o.id[2])

\* line 286: self alignments are skipped
NotSelf(query, target) == query.id # target.id

\* line 312: the duplicate filter
IsDuplicate(o, record) ==
    LexLess(o.id[1], o.id[2]) \/ (isContainment(o) /\ isQueryRev(record.flags))

\* lines 276-316: one iteration of the loop over the interval
PositionOverlaps(record, readIdx, pFwdRT, pRevRT, pFwdSAI, pRevSAI, j) ==
    LET pCurrRT == IF isTargetRev(record.flags) THEN pRevRT ELSE pFwdRT
        pCurrSAI == IF isTargetRev(record.flags) THEN pRevSAI ELSE pFwdSAI
        query == pCurrRT[readIdx]
        target == pCurrRT[pCurrSAI[j]]
        o == BuildOverlap(query, target, record)
    IN IF NotSelf(query, target) /\ ~IsDuplicate(o, record) THEN <<o>> ELSE <<>>

\* line 274: for j = lower .. upper
RECURSIVE RangeOverlaps(_, _, _, _, _, _, _)
RangeOverlaps(record, readIdx, pFwdRT, pRevRT, pFwdSAI, pRevSAI, j) ==
    IF j > record.upper THEN <<>>
    ELSE PositionOverlaps(record, readIdx, pFwdRT, pRevRT, pFwdSAI, pRevSAI, j)
         \o RangeOverlaps(record, readIdx, pFwdRT, pRevRT, pFwdSAI, pRevSAI, j + 1)

\* What the uninitialised locals of hitStringToOverlaps may hold when an
\* extraction fails: readIdx and numBlocks (size_t, never initialised) and
\* the OverlapBlock of each iteration.
BlockValues ==
    {OverlapBlock(lo, up, len, nd, fl) :
        lo \in ReadIdxs, up \in ReadIdxs, len \in 1..MaxLen,
        nd \in 0..MaxDiff, fl \in 0..3}

\* line 263: convertor >> readIdx >> numBlocks
ParsedReadIdx(h, u) == IF Extracted(h, 1) THEN h[1] ELSE u.readIdx

ParsedNumBlocks(h, u) == IF Extracted(h, 2) THEN h[2] ELSE u.numBlocks

\* line 270: convertor >> record
ParsedBlock(h, u, i) ==
    IF Extracted(h, BlockEnd(i)) THEN ExtractBlock(h, i) ELSE u.record[i]

\* line 266: for i = 0 .. numBlocks-1 (blocks counted from 1 here)
RECURSIVE BlocksOverlaps(_, _, _, _, _, _, _)
BlocksOverlaps(h, u, pFwdRT, pRevRT, pFwdSAI, pRevSAI, i) ==
    IF i > ParsedNumBlocks(h, u) THEN <<>>
    ELSE LET record == ParsedBlock(h, u, i)
         IN RangeOverlaps(record, ParsedReadIdx(h, u), pFwdRT, pRevRT,
                          pFwdSAI, pRevSAI, record.lower)
            \o BlocksOverlaps(h, u, pFwdRT, pRevRT, pFwdSAI, pRevSAI, i + 1)

hitStringToOverlaps(hitString, pFwdRT, pRevRT, pFwdSAI, pRevSAI, u) ==
    BlocksOverlaps(hitString, u, pFwdRT, pRevRT, pFwdSAI, pRevSAI, 1)

\* ---------------------------------------------------------- writeOverlap
\* lines 324-362: the stream an Overlap goes to
Proper(ovr) ==
    IF ~ovr.isRC
    THEN isLeftExtreme(ovr.coord[1]) # isLeftExtreme(ovr.coord[2])
         /\ isRightExtreme(ovr.coord[1]) # isRightExtreme(ovr.coord[2])
    ELSE isLeftExtreme(ovr.coord[1]) = isLeftExtreme(ovr.coord[2])
         /\ isRightExtreme(ovr.coord[1]) = isRightExtreme(ovr.coord[2])

\* a router that skips the containment test
Route_noContain(ovr) ==
    IF ~isExtreme(ovr.coord[1]) \/ ~isExtreme(ovr.coord[2]) THEN "nonextreme"
    ELSE IF ~Proper(ovr) THEN "improper"
    ELSE "overlap"

Route(ovr) ==
    IF isContained(ovr.coord[1]) \/ isContained(ovr.coord[2]) THEN "contain"
    ELSE IF ~isExtreme(ovr.coord[1]) \/ ~isExtreme(ovr.coord[2]) THEN "nonextreme"
    ELSE IF ~Proper(ovr) THEN "improper"
    ELSE "overlap"

\* writeOverlap applied to a stream triple <<containHandle, overlapHandle, cerr>>
writeOverlap(ovr, streams) ==
    LET r == Route(ovr)
    IN << IF r = "contain" THEN Append(streams[1], ovr) ELSE streams[1],
          IF r = "overlap" THEN Append(streams[2], ovr) ELSE streams[2],
          IF r \in {"nonextreme", "improper"}
          THEN Append(streams[3], <<r, ovr>>) ELSE streams[3] >>

RECURSIVE writeOverlaps(_, _)
writeOverlaps(ovs, streams) ==
    IF ovs = <<>> THEN streams
    ELSE writeOverlaps(Tail(ovs), writeOverlap(Head(ovs), streams))

\* ================================================================= state
VARIABLES
    pFwdRT, pRevRT,         \* the read table and its reverse
    pFwdSAI, pRevSAI,       \* the suffix array indices
    hitString,              \* the line getline returned last
    ov,                     \* the OverlapVector hitStringToOverlaps returned last
    containHandle,          \* legacy containment stream
    overlapHandle,          \* legacy overlap stream
    cerr,                   \* diagnostics of writeOverlap
    linesRead,              \* lines consumed so far
    pc,                     \* position of the running function
    numThreads,             \* opt::numThreads
    pending,                \* hit workers still running in computeHits*
    hitsFilenames,          \* the hit files, each the sequence of its lines
    filePos,                \* the file convertHitsToASQG is reading (from 1)
    asqg,                   \* records written to pASQGWriter
    sc                      \* a SeqCoord followed by its successive flips

tables == <<pFwdRT, pRevRT, pFwdSAI, pRevSAI>>
legacy == <<containHandle, overlapHandle, cerr>>
mainvars == <<pc, numThreads, pending, hitsFilenames, filePos, asqg>>
coords == <<sc>>
vars == <<tables, hitString, ov, legacy, linesRead, mainvars, coords>>

None == <<>>

\* Variables a specification does not use keep these values
IdleMain ==
    /\ pc = "idle" /\ numThreads = 0 /\ pending = {}
    /\ hitsFilenames = <<>> /\ filePos = 0 /\ asqg = <<>>

IdleCoords == sc = None

IdleLegacy == containHandle = <<>> /\ overlapHandle = <<>> /\ cerr = <<>>

\* lines 166-172, 209-215: the indices and the read tables are loaded
LoadedTables ==
    UNION {{<<rt, initializeReverse(rt), f, f>>,
            <<rt, initializeReverse(rt), f, Backwards(f)>>} :
              rt \in ReadTables, f \in SuffixArrays}

\* Intervals the search writes: non-empty ranges of index positions
Intervals == {iv \in ReadIdxs \X ReadIdxs : iv[1] <= iv[2]}

RECURSIVE SeqsUpTo(_, _)
SeqsUpTo(S, n) ==
    IF n = 0 THEN {<<>>}
    ELSE LET shorter == SeqsUpTo(S, n - 1)
         IN shorter \cup {Append(q, x) : q \in {t \in shorter : Len(t) = n - 1}, x \in S}

\* Well-formed hit lines of up to MaxBlocks blocks; the blocks of a line
\* differ in overlap length and flags and share interval and numDiff
BlockShapes == SeqsUpTo((1..MaxLen) \X (0..3), MaxBlocks)

HitLines ==
    {HitLine(r, [k \in 1..Len(sh) |->
                    OverlapBlock(iv[1], iv[2], sh[k][1], nd, sh[k][2])]) :
        r \in ReadIdxs, iv \in Intervals, nd \in 0..MaxDiff, sh \in BlockShapes}

\* No extraction fails on a well-formed line: the uninitialised values are unused
NoGarbage == [readIdx |-> 0, numBlocks |-> 0, record |-> <<>>]

\* ------------------------------------------- SpecLegacy: convertHitsToOverlaps
\* lines 203-250 on a hit file of one well-formed line
InitLegacy ==
    /\ \E t \in LoadedTables :
        pFwdRT = t[1] /\ pRevRT = t[2] /\ pFwdSAI = t[3] /\ pRevSAI = t[4]
    /\ hitString = None /\ ov = <<>> /\ linesRead = 0
    /\ IdleLegacy /\ IdleMain /\ IdleCoords

\* lines 233-238: getline, hitStringToOverlaps, writeOverlap of each Overlap
ConvertHitsLine ==
    /\ linesRead = 0
    /\ \E line \in HitLines :
        LET res == hitStringToOverlaps(line, pFwdRT, pRevRT, pFwdSAI, pRevSAI, NoGarbage)
            out == writeOverlaps(res, <<containHandle, overlapHandle, cerr>>)
        IN /\ hitString' = line
           /\ ov' = res
           /\ containHandle' = out[1]
           /\ overlapHandle' = out[2]
           /\ cerr' = out[3]
    /\ linesRead' = linesRead + 1
    /\ UNCHANGED <<tables, mainvars, coords>>

NextLegacy == ConvertHitsLine

SpecLegacy == InitLegacy /\ [][NextLegacy]_vars

\* ------------------------------------------------- Spec: overlapMain
\* The stage of section 4.5 a position of overlapMain lies in
Stage ==
    CASE pc = "main" -> 0                          \* Init
      [] pc \in {"header", "computing"} -> 1       \* HeaderWritten
      [] pc \in {"hits", "converting", "aborted"} -> 2   \* HitsComputed
      [] pc = "streamed" -> 3                      \* EdgesStreamed
      [] pc = "finalized" -> 4                     \* Finalized
      [] OTHER -> 0 - 1

\* hit lines the search may leave in a hit file: two well-formed ones, one
\* that announces two blocks and holds one, one whose read index is no
\* number, one whose block count is no number
GoodLineA == HitLine(0, <<OverlapBlock(0, NumReads - 1, 1, 0, 0)>>)

GoodLineB == HitLine(2, <<OverlapBlock(0, NumReads - 1, 1, 1, 3)>>)

TruncatedLine == <<0, 2>> \o BlockTokens(OverlapBlock(0, NumReads - 1, 1, 0, 0))

BadIndexLine == <<Bad, 1>> \o BlockTokens(OverlapBlock(0, NumReads - 1, 1, 0, 0))

BadCountLine == <<0, Bad>>

RunLines == {GoodLineA, GoodLineB, TruncatedLine, BadIndexLine, BadCountLine}

HitFiles == SeqsUpTo(RunLines, MaxLines)

\* what uninitialised locals may hold after a failed extraction: any read
\* index, any block count, and a block over an empty or a one-position
\* interval
GarbageBlocks ==
    {b \in BlockValues :
        /\ b.lower = 1 /\ b.upper <= 1
        /\ b.overlapLen = 1 /\ b.numDiff = 0 /\ b.flags = 0}

Garbage ==
    {[readIdx |-> r, numBlocks |-> n, record |-> [i \in 1..MaxBlocks |-> g]] :
        r \in ReadIdxs, n \in 0..MaxBlocks, g \in GarbageBlocks}

\* the tables of a run of overlapMain: reads of the greatest length, both
\* indices in table order
RunTables ==
    {t \in LoadedTables :
        /\ \A i \in ReadIdxs : Len(t[1][i].seq) = MaxLen /\ t[3][i] = i
        /\ t[4] = t[3]}

\* the workers computeHits* starts: one in serial mode (lines 131-140)
Workers == IF numThreads <= 1 THEN {1} ELSE 1..numThreads

ASQGEdges(ovs) == [k \in 1..Len(ovs) |-> <<"ED", ovs[k]>>]

Init ==
    /\ pc = "main"
    /\ numThreads \in 1..MaxThreads
    /\ pending = {} /\ hitsFilenames = <<>> /\ filePos = 0 /\ asqg = <<>>
    /\ pFwdRT = None /\ pRevRT = None /\ pFwdSAI = None /\ pRevSAI = None
    /\ hitString = None /\ ov = <<>> /\ linesRead = 0
    /\ IdleLegacy /\ IdleCoords

\* lines 107-120: the ASQG header is written
WriteHeader ==
    /\ pc = "main"
    /\ asqg' = Append(asqg, <<"HT">>)
    /\ pc' = "header"
    /\ UNCHANGED <<tables, hitString, ov, legacy, linesRead, numThreads,
                   pending, hitsFilenames, filePos, coords>>

\* the hit computation left out: overlapMain goes on without any hit file
ComputeHitsStart_skipped ==
    /\ pc = "header"
    /\ pc' = "hits"
    /\ UNCHANGED <<tables, hitString, ov, legacy, linesRead, numThreads,
                   pending, hitsFilenames, filePos, asqg, coords>>

\* lines 131-140: computeHitsSerial or computeHitsParallel is called
ComputeHitsStart ==
    /\ pc = "header"
    /\ pending' = Workers
    /\ pc' = "computing"
    /\ UNCHANGED <<tables, hitString, ov, legacy, linesRead, numThreads,
                   hitsFilenames, filePos, asqg, coords>>

\* a worker of the hit computation finishes its hit file
WorkerFinish ==
    /\ pc = "computing"
    /\ \E w \in pending, file \in HitFiles :
        /\ pending' = pending \ {w}
        /\ hitsFilenames' = Append(hitsFilenames, file)
    /\ UNCHANGED <<tables, hitString, ov, legacy, linesRead, pc, numThreads,
                   filePos, asqg, coords>>

\* computeHits* returns once every worker is done (the join), lines 141-147
ComputeHitsReturn ==
    /\ pc = "computing" /\ pending = {}
    /\ pc' = "hits"
    /\ UNCHANGED <<tables, hitString, ov, legacy, linesRead, numThreads,
                   pending, hitsFilenames, filePos, asqg, coords>>

\* line 150, lines 166-172: convertHitsToASQG is entered, the tables loaded
ConvertStart ==
    /\ pc = "hits"
    /\ \E t \in RunTables :
        pFwdRT' = t[1] /\ pRevRT' = t[2] /\ pFwdSAI' = t[3] /\ pRevSAI' = t[4]
    /\ filePos' = 1 /\ linesRead' = 0
    /\ pc' = "converting"
    /\ UNCHANGED <<hitString, ov, legacy, numThreads, pending, hitsFilenames,
                   asqg, coords>>

\* lines 182-190: one line of the current hit file becomes edge records.
\* A failed extraction leaves uninitialised values in use: any value, or
\* one so wild that a table lookup kills the process.
ConvertLine ==
    /\ pc = "converting"
    /\ filePos <= Len(hitsFilenames)
    /\ linesRead < Len(hitsFilenames[filePos])
    /\ LET line == hitsFilenames[filePos][linesRead + 1]
       IN /\ hitString' = line
          /\ \E u \in (IF WellFormed(line) THEN {NoGarbage} ELSE Garbage),
                wild \in (IF WellFormed(line) THEN {FALSE} ELSE BOOLEAN) :
              IF wild
              THEN pc' = "aborted" /\ ov' = <<>> /\ asqg' = asqg
              ELSE LET res == hitStringToOverlaps(line, pFwdRT, pRevRT,
                                                  pFwdSAI, pRevSAI, u)
                   IN ov' = res /\ asqg' = asqg \o ASQGEdges(res) /\ pc' = pc
    /\ linesRead' = linesRead + 1
    /\ UNCHANGED <<tables, legacy, numThreads, pending, hitsFilenames,
                   filePos, coords>>

\* lines 175, 192: getline fails at the end of a file, the next file is opened
NextFile ==
    /\ pc = "converting"
    /\ filePos <= Len(hitsFilenames)
    /\ linesRead = Len(hitsFilenames[filePos])
    /\ filePos' = filePos + 1 /\ linesRead' = 0
    /\ UNCHANGED <<tables, hitString, ov, legacy, pc, numThreads, pending,
                   hitsFilenames, asqg, coords>>

\* lines 195-200: convertHitsToASQG returns after the last file
ConvertReturn ==
    /\ pc = "converting"
    /\ filePos > Len(hitsFilenames)
    /\ pc' = "streamed"
    /\ UNCHANGED <<tables, hitString, ov, legacy, linesRead, numThreads,
                   pending, hitsFilenames, filePos, asqg, coords>>

\* lines 152-158: the writer is closed, overlapMain ends
Finalize ==
    /\ pc = "streamed"
    /\ pc' = "finalized"
    /\ UNCHANGED <<tables, hitString, ov, legacy, linesRead, numThreads,
                   pending, hitsFilenames, filePos, asqg, coords>>

Next ==
    \/ WriteHeader
    \/ ComputeHitsStart
    \/ WorkerFinish
    \/ ComputeHitsReturn
    \/ ConvertStart
    \/ ConvertLine
    \/ NextFile
    \/ ConvertReturn
    \/ Finalize

Spec == Init /\ [][Next]_vars

\* ------------------------------ SpecDedup: one match seen from both reads
\* The overlap a block of length len and flags fl describes between query
\* q and target t (section 4.3 c-e): <<coordA, coordB, isReverseComplement>>
Geometry(rt, q, t, len, fl) ==
    LET lq == Len(rt[q].seq)
        lt == Len(rt[t].seq)
    IN << IF isQueryRev(fl) THEN SeqCoord(0, len - 1, lq)
          ELSE SeqCoord(lq - len, lq - 1, lq),
          IF isTargetRev(fl) THEN SeqCoord(lt - len, lt - 1, lt)
          ELSE SeqCoord(0, len - 1, lt),
          isTargetRev(fl) # isQueryRev(fl) >>

\* the same match seen from the other read
Mirror(g) == <<g[2], g[1], g[3]>>

\* the index position that resolves to read r
PositionOf(sai, r) == CHOOSE j \in DOMAIN sai : sai[j] = r

\* the blocks the search writes for query q: one for every strand
\* configuration from fl on in which the match g with target t exists
RECURSIVE DiscoveryBlocks(_, _, _, _, _, _)
DiscoveryBlocks(tb, q, t, len, g, fl) ==
    IF fl > 3 THEN <<>>
    ELSE (IF Geometry(tb[1], q, t, len, fl) = g
          THEN LET j == PositionOf(IF isTargetRev(fl) THEN tb[4] ELSE tb[3], t)
               IN <<OverlapBlock(j, j, len, 0, fl)>>
          ELSE <<>>)
         \o DiscoveryBlocks(tb, q, t, len, g, fl + 1)

\* the hit file of a match of length len between reads x and y that exists
\* in configuration f0 seen from x: one line per read
MatchFile(tb, x, y, len, f0) ==
    LET g == Geometry(tb[1], x, y, len, f0)
    IN << HitLine(x, DiscoveryBlocks(tb, x, y, len, g, 0)),
          HitLine(y, DiscoveryBlocks(tb, y, x, len, Mirror(g), 0)) >>

\* convertHitsToASQG about to read the hit file of one match
InitDedup ==
    /\ \E t \in LoadedTables :
        /\ pFwdRT = t[1] /\ pRevRT = t[2] /\ pFwdSAI = t[3] /\ pRevSAI = t[4]
        /\ \E x \in ReadIdxs, f0 \in 0..3 :
            \E y \in ReadIdxs \ {x} :
                \E len \in 1..Min(Len(t[1][x].seq), Len(t[1][y].seq)) :
                    hitsFilenames = <<MatchFile(t, x, y, len, f0)>>
    /\ pc = "converting" /\ numThreads = 1 /\ pending = {}
    /\ filePos = 1 /\ linesRead = 0 /\ asqg = << <<"HT">> >>
    /\ hitString = None /\ ov = <<>>
    /\ IdleLegacy /\ IdleCoords

NextDedup == ConvertLine \/ NextFile \/ ConvertReturn \/ Finalize

SpecDedup == InitDedup /\ [][NextDedup]_vars

\* ------------------------------------ SpecCoord: SeqCoord and writeOverlap
\* Well-formed coordinates: 0 <= start <= end < seqlen
Coords ==
    {c \in [start : 0..(MaxCoordLen - 1), end : 0..(MaxCoordLen - 1),
            seqlen : 1..MaxCoordLen] :
        c.start <= c.end /\ c.end < c.seqlen}

\* Overlaps of any geometry, as writeOverlap may be handed
AnyOverlaps ==
    {Overlap(NamePool[2], a, NamePool[1], b, rc, 0) :
        a \in Coords, b \in Coords, rc \in BOOLEAN}

InitCoord ==
    /\ sc \in {<<c>> : c \in Coords}
    /\ pFwdRT = None /\ pRevRT = None /\ pFwdSAI = None /\ pRevSAI = None
    /\ hitString = None /\ ov = <<>> /\ linesRead = 0
    /\ IdleLegacy /\ IdleMain

\* SeqCoord::flip applied to the coordinate, at most twice
FlipCoord ==
    /\ Len(sc) < 3
    /\ sc' = Append(sc, flip(sc[Len(sc)]))
    /\ UNCHANGED <<tables, hitString, ov, legacy, linesRead, mainvars>>

\* lines 324-362: writeOverlap on one Overlap
WriteAnyOverlap ==
    /\ ov = <<>>
    /\ \E ovr \in AnyOverlaps :
        LET out == writeOverlap(ovr, <<containHandle, overlapHandle, cerr>>)
        IN /\ ov' = <<ovr>>
           /\ containHandle' = out[1]
           /\ overlapHandle' = out[2]
           /\ cerr' = out[3]
    /\ UNCHANGED <<tables, hitString, linesRead, mainvars, coords>>

NextCoord == FlipCoord \/ WriteAnyOverlap

SpecCoord == InitCoord /\ [][NextCoord]_vars

\* ============================================================== claims
\* ---- the line last read, seen from outside hitStringToOverlaps
\* the <<block, index position>> pairs a line names, in the order of the line
RECURSIVE PositionsFrom(_, _, _)
PositionsFrom(h, i, j) ==
    IF i > h[2] THEN <<>>
    ELSE IF j > ExtractBlock(h, i).upper
         THEN IF i + 1 > h[2] THEN <<>>
              ELSE PositionsFrom(h, i + 1, ExtractBlock(h, i + 1).lower)
         ELSE << <<i, j>> >> \o PositionsFrom(h, i, j + 1)

Positions == IF hitString = None \/ hitString[2] = 0 THEN <<>>
             ELSE PositionsFrom(hitString, 1, ExtractBlock(hitString, 1).lower)

BlockOf(p) == ExtractBlock(hitString, p[1])

QueryOf(p) ==
    IF isTargetRev(BlockOf(p).flags) THEN pRevRT[hitString[1]] ELSE pFwdRT[hitString[1]]

TargetOf(p) ==
    IF isTargetRev(BlockOf(p).flags) THEN pRevRT[pRevSAI[p[2]]] ELSE pFwdRT[pFwdSAI[p[2]]]

SelfAt(p) == QueryOf(p).id = TargetOf(p).id

ContainmentAt(p) ==
    \/ BlockOf(p).overlapLen = Len(QueryOf(p).seq)
    \/ BlockOf(p).overlapLen = Len(TargetOf(p).seq)

\* the retention rule as the claim states it
Retains(p) ==
    /\ ~SelfAt(p)
    /\ ~LexLess(QueryOf(p).id, TargetOf(p).id)
    /\ ~(ContainmentAt(p) /\ isQueryRev(BlockOf(p).flags))

Kept == SelectSeq(Positions, Retains)

\* the Overlap of a position as section 4.3 c-f describes it
ExpectedOverlap(p) ==
    LET b == BlockOf(p)
        lq == Len(QueryOf(p).seq)
        lt == Len(TargetOf(p).seq)
        ca == IF isQueryRev(b.flags)
              THEN [start |-> 0, end |-> b.overlapLen - 1, seqlen |-> lq]
              ELSE [start |-> lq - b.overlapLen, end |-> lq - 1, seqlen |-> lq]
        cb == IF isTargetRev(b.flags)
              THEN [start |-> lt - b.overlapLen, end |-> lt - 1, seqlen |-> lt]
              ELSE [start |-> 0, end |-> b.overlapLen - 1, seqlen |-> lt]
    IN [id |-> <<QueryOf(p).id, TargetOf(p).id>>, coord |-> <<ca, cb>>,
        isRC |-> (isTargetRev(b.flags) # isQueryRev(b.flags)),
        numDiff |-> b.numDiff]

Written == containHandle \o overlapHandle

InSeq(x, q) == \E k \in 1..Len(q) : q[k] = x

C3_SelfMatchExclusion ==
    /\ \A k \in 1..Len(ov) : ov[k].id[1] # ov[k].id[2]
    /\ linesRead = 1 =>
        LET pos == Positions
        IN Len(ov) <= Cardinality({k \in 1..Len(pos) : ~SelfAt(pos[k])})

\* C3 witness: a line with a self position in a block whose query is not
\* reversed (only the self test can drop it) and with a retained Overlap.
C3_Witness ==
    /\ linesRead = 1 /\ ov # <<>>
    /\ \E p \in {Positions[k] : k \in 1..Len(Positions)} :
        SelfAt(p) /\ ~isQueryRev(BlockOf(p).flags)

\* C4 as claimed: every Overlap has coordB.start = 0.
C4_CoordBStartZero == \A k \in 1..Len(ov) : ov[k].coord[2].start = 0

\* C4 amended: coordB.start = 0 when the block's targetIsReverse is false;
\* when it is true coordB is flipped and ends at the target's last base:
\* coordB.end = len(target) - 1 and coordB.start = len(target) - overlapLen.
C4_TargetAnchoring ==
    linesRead = 1 =>
      LET kept == Kept
      IN
        /\ Len(ov) = Len(kept)
        /\ \A k \in 1..Len(ov) :
            LET b == BlockOf(kept[k])
                lt == Len(TargetOf(kept[k]).seq)
            IN IF isTargetRev(b.flags)
               THEN /\ ov[k].coord[2].end = lt - 1
                    /\ ov[k].coord[2].start = lt - b.overlapLen
               ELSE ov[k].coord[2].start = 0

\* C4 witness: a retained Overlap of a block with targetIsReverse whose
\* coordB does not start at 0, and one of a block without it.
C4_Witness ==
    /\ linesRead = 1 /\ Len(ov) = Len(Kept)
    /\ LET kept == Kept
       IN /\ \E k \in 1..Len(ov) :
               isTargetRev(BlockOf(kept[k]).flags) /\ ov[k].coord[2].start # 0
          /\ \E k \in 1..Len(ov) : ~isTargetRev(BlockOf(kept[k]).flags)

InContract(p) ==
    /\ 1 <= BlockOf(p).overlapLen
    /\ BlockOf(p).overlapLen <= Min(Len(QueryOf(p).seq), Len(TargetOf(p).seq))

\* C10: an Overlap inferred from a block with 1 <= overlapLen <=
\* min(len(query), len(target)) has coordA right-extreme (left-extreme when
\* the query is reversed) and coordB left-extreme (right-extreme when the
\* target is reversed), and writeOverlap writes it to exactly one of the two
\* streams, never logging it as non-extreme or improper.
C10_InferredPassLegacy ==
    linesRead = 1 =>
      LET kept == Kept
      IN
        /\ Len(ov) = Len(kept)
        /\ \A k \in 1..Len(ov) :
            InContract(kept[k]) =>
                LET b == BlockOf(kept[k])
                IN /\ IF isQueryRev(b.flags) THEN isLeftExtreme(ov[k].coord[1])
                      ELSE isRightExtreme(ov[k].coord[1])
                   /\ IF isTargetRev(b.flags) THEN isRightExtreme(ov[k].coord[2])
                      ELSE isLeftExtreme(ov[k].coord[2])
                   /\ InSeq(ov[k], containHandle) # InSeq(ov[k], overlapHandle)
                   /\ \A m \in 1..Len(cerr) : cerr[m][2] # ov[k]

\* C10 witness: a line within the contract that put one Overlap on the
\* containment stream and one on the overlap stream.
C10_Witness ==
    /\ linesRead = 1
    /\ LET kept == Kept
       IN Len(ov) = Len(kept) /\ \A k \in 1..Len(ov) : InContract(kept[k])
    /\ containHandle # <<>> /\ overlapHandle # <<>>

\* the properness rule of the legacy routing, stated on the coordinates
C6_Properness(o) ==
    IF o.isRC
    THEN /\ isLeftExtreme(o.coord[1]) = isLeftExtreme(o.coord[2])
         /\ isRightExtreme(o.coord[1]) = isRightExtreme(o.coord[2])
    ELSE /\ isLeftExtreme(o.coord[1]) # isLeftExtreme(o.coord[2])
         /\ isRightExtreme(o.coord[1]) # isRightExtreme(o.coord[2])

C6_Whole(c) == isContained(c)

C6_Touches(c) == isExtreme(c)

\* C6: writeOverlap writes an Overlap to the containment stream iff an
\* endpoint is contained; otherwise to the overlap stream iff both endpoints
\* are extreme and the overlap is proper; otherwise to neither.
C6_LegacyRouting ==
    (pc = "idle" /\ sc # None /\ ov # <<>>) =>
        LET o == ov[1]
            contained == C6_Whole(o.coord[1]) \/ C6_Whole(o.coord[2])
            valid == C6_Touches(o.coord[1]) /\ C6_Touches(o.coord[2]) /\ C6_Properness(o)
        IN /\ containHandle = (IF contained THEN <<o>> ELSE <<>>)
           /\ overlapHandle = (IF ~contained /\ valid THEN <<o>> ELSE <<>>)
           /\ (containHandle = <<>> \/ overlapHandle = <<>>)

\* C6 witness: a contained Overlap that the properness rule would reject
\* went to the containment stream, and nothing was logged.
C6_Witness ==
    /\ pc = "idle" /\ sc # None /\ ov # <<>>
    /\ C6_Whole(ov[1].coord[1]) /\ ~C6_Whole(ov[1].coord[2])
    /\ C6_Touches(ov[1].coord[2]) /\ ~C6_Properness(ov[1])
    /\ containHandle = ov /\ overlapHandle = <<>> /\ cerr = <<>>

\* C8: flipping a well-formed coordinate twice returns it unchanged.
C8_FlipTwice == (sc # None /\ Len(sc) = 3) => sc[3] = sc[1]

\* C8 witness: a coordinate whose flip differs from it, flipped twice.
C8_Witness == sc # None /\ Len(sc) = 3 /\ sc[2] # sc[1]

\* ---- claims about a run of overlapMain
EdgeCount == Cardinality({k \in 1..Len(asqg) : asqg[k][1] = "ED"})

RECURSIVE Flatten(_)
Flatten(files) == IF files = <<>> THEN <<>> ELSE Head(files) \o Flatten(Tail(files))

\* the lines convertHitsToASQG has read so far, in order
Consumed ==
    IF filePos = 0 THEN <<>>
    ELSE IF filePos > Len(hitsFilenames) THEN Flatten(hitsFilenames)
    ELSE Flatten(SubSeq(hitsFilenames, 1, filePos - 1))
         \o SubSeq(hitsFilenames[filePos], 1, linesRead)

\* C2: when a match between two distinct reads is reported from both reads,
\* in every strand configuration in which it exists, the run retains exactly
\* one Overlap for the pair.
C2_ExactlyOnePerPair == pc \in {"streamed", "finalized"} => EdgeCount = 1

\* C5: a malformed hit line aborts the run: it is the last line read, the
\* process has stopped, and the line yielded no Overlap.
C5_MalformedIsFatal ==
    \A k \in 1..Len(Consumed) :
        ~WellFormed(Consumed[k]) =>
            k = Len(Consumed) /\ pc = "aborted" /\ ov = <<>>

\* what holds of the ASQG file, the hit files and the workers at each stage
C7_Barrier ==
    /\ Stage >= 1 => (asqg # <<>> /\ asqg[1] = <<"HT">>)
    /\ \A k \in 2..Len(asqg) : asqg[k] # <<"HT">>
    /\ (EdgeCount > 0 \/ filePos > 0 \/ hitString # None \/ pFwdRT # None) => Stage >= 2
    /\ Stage >= 2 => (pending = {} /\ Len(hitsFilenames) = Cardinality(Workers))

\* the stage never goes back and never skips
C7_Step == Stage' = Stage \/ Stage' = Stage + 1

\* C7: overlapMain passes the stages in order, one at a time; the header is
\* the first record of the ASQG file; no hit file is read and no edge is
\* written before the hit computation has returned with every worker done
\* and one hit file per worker.
C7_OrchestratorOrdering == (Stage = 0) /\ []C7_Barrier /\ [][C7_Step]_vars

\* C7 witness: a finished parallel run that wrote edges.
C7_Witness == pc = "finalized" /\ numThreads = 2 /\ EdgeCount > 0

====
